---- MODULE Spec2Model ----
(***************************************************************************)
(* Model of the external resolver orchestration subsystem (PythonResolver): *)
(* resolveLink with its result cache and soft throttle, downloadScript,     *)
(* createScriptTemplate, scheduleUpdate / stopScheduledUpdates with the     *)
(* cron tick handler, clearCache and getStatus.                             *)
(*                                                                          *)
(* Every action is one run-to-completion segment of the Node.js event loop: *)
(* the code between two awaits executes atomically, and other handlers      *)
(* interleave only at the awaits (setTimeout, execAsync, axios.get).        *)
(***************************************************************************)
EXTENDS Integers, Sequences, FiniteSets, TLC

(***************************************************************************)
(* Bounds of the model.                                                     *)
(***************************************************************************)
MaxCalls    == 2    \* resolveLink calls made in one behaviour
MaxSlots    == 3    \* call records; the calls of one behaviour of SpecPaths
MaxAdvances == 2    \* clock advances in one behaviour
MaxTasks    == 2    \* cron tasks created in one behaviour
MaxPending  == 1    \* downloadScript calls awaiting axios.get at one time
MaxLen      == 5    \* longest schedule input string that is enumerated
MaxMinutes  == 200  \* minutes of wall-clock time followed in SpecCron

(***************************************************************************)
(* Program constants.                                                       *)
(***************************************************************************)
cacheExpiryTime == 1200000   \* 20 * 60 * 1000 ms
Backoff         == 500       \* setTimeout(resolve, 500)

(***************************************************************************)
(* Values.  JavaScript null is NULL for strings, NoTime for timestamps and  *)
(* None for objects; Some(x) is a present object.                           *)
(***************************************************************************)
NULL    == "null"
NoTime  == -1
None    == << >>
Some(x) == << x >>

NoScript == "absent"                       \* fs.existsSync(scriptPath) is false
Template == "template"                     \* the bundled templateContent
DownloadBodies == {"v1", "bad"}            \* bodies a source URL may serve

\* response.data.includes('def resolve_link') || includes('def resolve_stream')
HasMarker(body) == body \in {"v1", Template}

SourceUrls == {"s1"}

\* Header objects as insertion-ordered lists of <<name, value>> pairs.
H0 == << >>
H1 == << <<"a", "1">> >>

Requests ==
    { [url |-> "u1", headers |-> H0, channel_name |-> "n1", proxy_config |-> NULL],
      [url |-> "u1", headers |-> H0, channel_name |-> "n2", proxy_config |-> "p1"],
      [url |-> "u2", headers |-> H1, channel_name |-> "n1", proxy_config |-> NULL] }

Steps == {Backoff, cacheExpiryTime - Backoff}  \* amounts by which the clock advances

VARIABLES
    now,             \* Date.now()
    advances,        \* number of clock advances so far
    script,          \* content of the file at scriptPath, or NoScript
    scriptUrl,       \* this.scriptUrl
    cache,           \* this.resolvedLinksCache: key -> [timestamp, data]
    lastExecution,   \* this.lastExecution
    lastError,       \* this.lastError
    isRunning,       \* this.isRunning
    cronJob,         \* this.cronJob: id of a cron task, or 0 for null
    updateInterval,  \* this.updateInterval
    tasks,           \* node-cron's running tasks: id -> cron expression
    taskSeq,         \* number of cron tasks created so far
    temp,            \* files of the temp directory: path -> content
    calls,           \* the resolveLink calls: id -> position and locals
    downloads,       \* downloadScript calls awaiting axios.get
    tfIn,            \* the schedule input under test (SpecInputs, SpecCron)
    fired,           \* the last tick of a cron task: which task, when, and how
                     \* long after the previous tick of the same task
    ev               \* the operation that ran last and what it returned

vars == << now, advances, script, scriptUrl, cache, lastExecution, lastError,
           isRunning, cronJob, updateInterval, tasks, taskSeq, temp, calls,
           downloads, tfIn, fired, ev >>

CallIds == 1 .. MaxSlots

(***************************************************************************)
(* Pure helpers of resolveLink.                                             *)
(***************************************************************************)
RECURSIVE JoinPairs(_)
JoinPairs(h) ==
    IF h = << >> THEN ""
    ELSE "\"" \o h[1][1] \o "\":\"" \o h[1][2] \o "\""
         \o (IF Len(h) > 1 THEN "," ELSE "") \o JoinPairs(Tail(h))

\* JSON.stringify(headers)
JSONstringify(h) == "{" \o JoinPairs(h) \o "}"

\* const cacheKey = `${url}:${JSON.stringify(headers)}`
CacheKey(url, headers) == url \o ":" \o JSONstringify(headers)

\* (Date.now() - cachedResult.timestamp) < this.cacheExpiryTime
FreshLE(entry) == now - entry.timestamp <= cacheExpiryTime
FreshSeconds(entry) == now - entry.timestamp < 20 * 60
Fresh(entry) == now - entry.timestamp < cacheExpiryTime

\* fs.existsSync(this.scriptPath)
ScriptExistsUnchecked == TRUE
ScriptExists == script # NoScript

\* The lastError a failing resolveLink records, by the way it failed.
ErrorOfSilentMissingOutput(outcome) ==
    CASE outcome = "missing"  -> "Python resolver script not found"
      [] outcome = "exec"     -> "Execution error"
      [] outcome = "nooutput" -> lastError
      [] outcome = "parse"    -> "Parsing error"
ErrorOf(outcome) ==
    CASE outcome = "missing"  -> "Python resolver script not found"
      [] outcome = "exec"     -> "Execution error"
      [] outcome = "nooutput" -> "Output file not created"
      [] outcome = "parse"    -> "Parsing error"

\* cachedResult && fresh
CacheHitIfProgram(key) ==
    key \in DOMAIN cache /\ Fresh(cache[key]) /\ ScriptExists
CacheHit(key) == key \in DOMAIN cache /\ Fresh(cache[key])

\* Map.prototype.set
MapSet(m, k, v) == [x \in DOMAIN m \cup {k} |-> IF x = k THEN v ELSE m[x]]

\* fs.unlinkSync / removal of paths from the directory
Without(m, ks) == [x \in DOMAIN m \ ks |-> m[x]]

\* Line 98: this.resolvedLinksCache.get(cacheKey) leaves the map as it is,
\* whether the entry is fresh, expired or absent.
LookedTouch(key) ==
    IF CacheHit(key) THEN [cache EXCEPT ![key].timestamp = now] ELSE cache
LookedEvict(key) ==
    IF key \in DOMAIN cache /\ ~ Fresh(cache[key]) THEN Without(cache, {key})
    ELSE cache
Looked(key) == cache

\* Lines 148-151: { timestamp: Date.now(), data: result }
CacheEntrySeconds(result) == [timestamp |-> now \div 1000, data |-> result]
CacheEntry(result) == [timestamp |-> now, data |-> result]

\* Line 148: this.resolvedLinksCache.set(cacheKey, entry)
CachePutIfAbsent(m, k, e) == IF k \in DOMAIN m THEN m ELSE MapSet(m, k, e)
CachePut(m, k, e) == MapSet(m, k, e)

EmptyMap == [x \in {} |-> 0]

InputPath(t)  == << "input", t >>    \* temp/input_${Date.now()}.json
OutputPath(t) == << "output", t >>   \* temp/output_${Date.now()}.json

IdleCall ==
    [pc |-> "idle", req |-> None, key |-> NULL, wakeAt |-> NoTime,
     inputFile |-> None, outputFile |-> None, child |-> None,
     ret |-> None, outcome |-> "none", storedAt |-> NoTime, stale |-> FALSE,
     found |-> NoTime, due |-> None]

NoFire == [task |-> 0, at |-> NoTime, gap |-> NoTime]

Event(op, id, ok, how) == [op |-> op, id |-> id, ok |-> ok, how |-> how]

Init ==
    /\ now = 0
    /\ advances = 0
    /\ script = NoScript
    /\ scriptUrl = NULL
    /\ cache = EmptyMap
    /\ lastExecution = NoTime
    /\ lastError = NULL
    /\ isRunning = FALSE
    /\ cronJob = 0
    /\ updateInterval = None
    /\ tasks = EmptyMap
    /\ taskSeq = 0
    /\ temp = EmptyMap
    /\ calls = [c \in CallIds |-> IdleCall]
    /\ downloads = << >>
    /\ tfIn = << >>
    /\ fired = NoFire
    /\ ev = Event("init", 0, TRUE, "")

\* Passage of time between two event-loop segments.  Only differences of
\* times matter: the clock of a behaviour starts at its first call, and the
\* long step is taken only when there is a cache entry to age.
Advance(d) ==
    /\ advances < MaxAdvances
    /\ calls[1].pc # "idle"
    /\ d = Backoff \/ cache # EmptyMap
    /\ now' = now + d
    /\ advances' = advances + 1
    /\ UNCHANGED << script, scriptUrl, cache, lastExecution, lastError, isRunning,
                    cronJob, updateInterval, tasks, taskSeq, temp, calls,
                    downloads, ev, tfIn, fired >>

(***************************************************************************)
(* resolveLink.  A call record holds the position of the call (pc), its     *)
(* locals and its return value (ret, outcome).  Two fields record history   *)
(* for the statements about pairs of operations: storedAt is the time at    *)
(* which the call stored its result, for as long as no clear and no later   *)
(* store under the same key has happened (NoTime otherwise); stale says     *)
(* that a scheduled re-install finished while the call's child was running. *)
(* found is the age of the cache entry the call met under its key (NoTime   *)
(* when there was none), and due is the result of an earlier call with the  *)
(* same url and headers that was stored less than 20 minutes before the     *)
(* call started and neither cleared nor replaced since.                     *)
(***************************************************************************)
\* A call that has returned keeps only what its caller and the log saw.
Returned(call, ret, outcome) ==
    [call EXCEPT !.pc = "done", !.ret = ret, !.outcome = outcome,
                 !.wakeAt = NoTime, !.child = None,
                 !.inputFile = None, !.outputFile = None]

\* this.resolvedLinksCache.clear(), seen from the call records
AfterClear(cs) == [d \in CallIds |-> [cs[d] EXCEPT !.storedAt = NoTime]]

\* Lines 183-185: finally { this.isRunning = false }, on every way o out of
\* the try block.
ReleaseOnSuccess(o) == IF o = "ok" THEN FALSE ELSE isRunning
Release(o) == FALSE

\* Lines 114-134: isRunning = true, the two temp paths, the input file, the
\* child process is spawned and the call awaits its exit.  w is the outcome
\* of fs.writeFileSync(inputFile): when it throws, the catch and the finally
\* of lines 178-185 run and the call returns.
Invoke(c, call, w) ==
    IF w = "ok"
    THEN /\ isRunning' = TRUE
         /\ temp' = MapSet(temp, InputPath(now), call.req[1])
         /\ calls' = [calls EXCEPT ![c] =
                        [call EXCEPT !.pc = "spawned", !.wakeAt = NoTime,
                                     !.inputFile = Some(InputPath(now)),
                                     !.outputFile = Some(OutputPath(now))]]
         /\ ev' = Event("resolve", 0, TRUE, "")
         /\ UNCHANGED lastError
    ELSE /\ isRunning' = Release(w)
         /\ lastError' = ErrorOf("exec")
         /\ calls' = [calls EXCEPT ![c] = Returned(call, None, "exec")]
         /\ ev' = Event("resolveReturn", c, FALSE, "exec")
         /\ UNCHANGED temp

\* The result of an earlier call for the same url and headers, stored less
\* than 20 minutes ago and neither cleared nor replaced since, if any.
DueFor(r) ==
    LET S == { d \in CallIds : /\ calls[d].storedAt # NoTime
                               /\ calls[d].req[1].url = r.url
                               /\ calls[d].req[1].headers = r.headers
                               /\ now - calls[d].storedAt < 20 * 60 * 1000 }
    IN  IF S = {} THEN None ELSE Some(calls[CHOOSE d \in S : TRUE].ret[1])

\* Lines 95-112: cache check, existence check, throttle; falls through to the
\* invocation when nothing is running.
ResolveLink(c, r, w) ==
    /\ calls[c].pc = "idle"
    /\ \A d \in CallIds : d < c => calls[d].pc # "idle"
    /\ LET key  == CacheKey(r.url, r.headers)
           call == [calls[c] EXCEPT
                      !.req = Some(r), !.key = key, !.due = DueFor(r),
                      !.found = IF key \in DOMAIN cache
                                THEN now - cache[key].timestamp ELSE NoTime]
       IN  IF CacheHit(key)
           THEN /\ w = "ok"
                /\ calls' = [calls EXCEPT ![c] =
                               Returned(call, Some(cache[key].data), "hit")]
                /\ ev' = Event("resolveReturn", c, TRUE, "hit")
                /\ UNCHANGED << lastError, isRunning, temp >>
           ELSE IF ~ ScriptExists
           THEN /\ w = "ok"
                /\ lastError' = ErrorOf("missing")
                /\ calls' = [calls EXCEPT ![c] = Returned(call, None, "missing")]
                /\ ev' = Event("resolveReturn", c, FALSE, "missing")
                /\ UNCHANGED << isRunning, temp >>
           ELSE IF isRunning
           THEN /\ w = "ok"
                /\ calls' = [calls EXCEPT ![c] =
                               [call EXCEPT !.pc = "backoff",
                                            !.wakeAt = now + Backoff]]
                /\ ev' = Event("resolve", 0, TRUE, "")
                /\ UNCHANGED << lastError, isRunning, temp >>
           ELSE Invoke(c, call, w)
    /\ cache' = Looked(CacheKey(r.url, r.headers))
    /\ UNCHANGED << now, advances, script, scriptUrl, lastExecution,
                    cronJob, updateInterval, tasks, taskSeq, downloads, tfIn, fired >>

\* Line 111: the 500 ms timer fires and the call goes on to the invocation.
ResolveWakeAgain(c, w) ==
    /\ calls[c].pc = "backoff"
    /\ now >= calls[c].wakeAt
    /\ IF isRunning
       THEN /\ w = "ok"
            /\ calls' = [calls EXCEPT ![c].wakeAt = now + Backoff]
            /\ ev' = Event("resolve", 0, TRUE, "")
            /\ UNCHANGED << lastError, isRunning, temp >>
       ELSE Invoke(c, calls[c], w)
    /\ UNCHANGED << now, advances, script, scriptUrl, cache, lastExecution,
                    cronJob, updateInterval, tasks, taskSeq, downloads, tfIn, fired >>
ResolveWakeWhenFree(c, w) ==
    /\ calls[c].pc = "backoff"
    /\ now >= calls[c].wakeAt
    /\ ~ isRunning
    /\ Invoke(c, calls[c], w)
    /\ UNCHANGED << now, advances, script, scriptUrl, cache, lastExecution,
                    cronJob, updateInterval, tasks, taskSeq, downloads, tfIn, fired >>
ResolveWakeRecheck(c, w) ==
    /\ calls[c].pc = "backoff"
    /\ now >= calls[c].wakeAt
    /\ IF CacheHit(calls[c].key)
       THEN /\ w = "ok"
            /\ calls' = [calls EXCEPT ![c] =
                           Returned(calls[c], Some(cache[calls[c].key].data), "hit")]
            /\ ev' = Event("resolveReturn", c, TRUE, "hit")
            /\ UNCHANGED << lastError, isRunning, temp >>
       ELSE Invoke(c, calls[c], w)
    /\ UNCHANGED << now, advances, script, scriptUrl, cache, lastExecution,
                    cronJob, updateInterval, tasks, taskSeq, downloads, tfIn, fired >>
ResolveWake(c, w) ==
    /\ calls[c].pc = "backoff"
    /\ now >= calls[c].wakeAt
    /\ Invoke(c, calls[c], w)
    /\ UNCHANGED << now, advances, script, scriptUrl, cache, lastExecution,
                    cronJob, updateInterval, tasks, taskSeq, downloads, tfIn, fired >>

\* The child (python3 scriptPath --resolve in out) reads the program and its
\* input file.
ChildStart(c) ==
    /\ calls[c].pc = "spawned"
    /\ script # NoScript
    /\ calls[c].inputFile[1] \in DOMAIN temp
    /\ calls' = [calls EXCEPT ![c].pc = "running",
                              ![c].child = Some([prog  |-> script,
                                                 input |-> temp[calls[c].inputFile[1]]])]
    /\ ev' = Event("resolve", 0, TRUE, "")
    /\ UNCHANGED << now, advances, script, scriptUrl, cache, lastExecution,
                    lastError, isRunning, cronJob, updateInterval, tasks, taskSeq, temp,
                    downloads, tfIn, fired >>

\* What the external program writes for what it read.
ResultOf(child) == [by |-> child.prog, input |-> child.input]

ChildOutcomes == {"ok", "garbage", "nooutput", "fail"}

\* JSON.parse(resultText) succeeds
Parses(text) == text[1] = "json"

\* Lines 134-185: the child exits with outcome o (it wrote a parseable output
\* file, an unparseable one, none, or it failed or could not be spawned) and
\* the call runs to its return.
ExecDone(c, o) ==
    /\ \/ calls[c].pc = "running"
       \/ calls[c].pc = "spawned" /\ o = "fail"
    /\ LET call == calls[c]
           inF  == call.inputFile[1]
           outF == call.outputFile[1]
           written == IF o = "ok" THEN MapSet(temp, outF, << "json", ResultOf(call.child[1]) >>)
                      ELSE IF o = "garbage" THEN MapSet(temp, outF, << "garbage" >>)
                      ELSE temp
       IN  /\ isRunning' = Release(o)
           /\ IF o = "fail"
              THEN /\ lastError' = ErrorOf("exec")
                   /\ calls' = [calls EXCEPT ![c] = Returned(call, None, "exec")]
                   /\ ev' = Event("resolveReturn", c, FALSE, "exec")
                   /\ UNCHANGED << cache, lastExecution, temp >>
              ELSE IF outF \notin DOMAIN written
              THEN /\ lastError' = ErrorOf("nooutput")
                   /\ calls' = [calls EXCEPT ![c] = Returned(call, None, "nooutput")]
                   /\ ev' = Event("resolveReturn", c, FALSE, "nooutput")
                   /\ UNCHANGED << cache, lastExecution, temp >>
              ELSE IF ~ Parses(written[outF])
              THEN /\ lastError' = ErrorOf("parse")
                   /\ calls' = [calls EXCEPT ![c] = Returned(call, None, "parse")]
                   /\ ev' = Event("resolveReturn", c, FALSE, "parse")
                   /\ temp' = written
                   /\ UNCHANGED << cache, lastExecution >>
              ELSE LET result == written[outF][2]
                   IN  /\ ev' = Event("resolveReturn", c, TRUE, "ok")
                       /\ cache' = CachePut(cache, call.key, CacheEntry(result))
                       /\ lastExecution' = now
                       /\ lastError' = NULL
                       \* unlinkSync(inputFile) throws when the file is gone, and
                       \* then unlinkSync(outputFile) is skipped
                       /\ temp' = IF inF \in DOMAIN written
                                  THEN Without(written, {inF, outF})
                                  ELSE written
                       /\ calls' = [d \in CallIds |->
                                     IF d = c
                                     THEN [Returned(call, Some(result), "ok")
                                             EXCEPT !.storedAt = now]
                                     ELSE IF calls[d].key = call.key
                                     THEN [calls[d] EXCEPT !.storedAt = NoTime]
                                     ELSE calls[d]]
    /\ UNCHANGED << now, advances, script, scriptUrl, cronJob, updateInterval,
                    tasks, taskSeq, downloads, tfIn, fired >>

(***************************************************************************)
(* downloadScript and createScriptTemplate.                                 *)
(***************************************************************************)
Responses == {"error"} \cup DownloadBodies   \* axios.get rejects, or a body

\* Lines 33-38: the URL is recorded and the fetch is awaited.
BeginDownload(url, kind, task) ==
    /\ scriptUrl' = url
    /\ downloads' = Append(downloads, [url |-> url, kind |-> kind, task |-> task])

\* Lines 38-53 after the await: what the rest of downloadScript leaves behind.
FetchedValidateFirst(resp) ==
    IF resp = "error"
    THEN [script |-> script, lastError |-> "Download error", ok |-> FALSE, how |-> "fetch"]
    ELSE IF ~ HasMarker(resp)
    THEN [script |-> script,
          lastError |-> "The script must contain a resolve_link or resolve_stream function",
          ok |-> FALSE, how |-> "marker"]
    ELSE [script |-> resp, lastError |-> lastError, ok |-> TRUE, how |-> "ok"]
Fetched(resp) ==
    IF resp = "error"
    THEN [script |-> script, lastError |-> "Download error", ok |-> FALSE, how |-> "fetch"]
    ELSE IF ~ HasMarker(resp)
    THEN [script |-> resp,
          lastError |-> "The script must contain a resolve_link or resolve_stream function",
          ok |-> FALSE, how |-> "marker"]
    ELSE [script |-> resp, lastError |-> lastError, ok |-> TRUE, how |-> "ok"]

RemoveAt(q, i) == SubSeq(q, 1, i - 1) \o SubSeq(q, i + 1, Len(q))

\* POST /api/resolver action=download: downloadScript(url) up to its await.
DownloadScript(url) ==
    /\ Len(downloads) < MaxPending
    /\ BeginDownload(url, "api", 0)
    /\ ev' = Event("downloadStart", 0, TRUE, "")
    /\ UNCHANGED << now, advances, script, cache, lastExecution, lastError,
                    isRunning, cronJob, updateInterval, tasks, taskSeq, temp, calls, tfIn, fired >>

\* Line 233 of the tick handler: this.resolvedLinksCache.clear(), whatever
\* downloadScript returned (ok).
TickClearIfOk(cs, ok) ==
    IF ok THEN cache' = EmptyMap /\ calls' = AfterClear(cs)
    ELSE cache' = cache /\ calls' = cs
TickClear(cs, ok) ==
    /\ cache' = EmptyMap
    /\ calls' = AfterClear(cs)

\* Lines 33-54 and index.js 431-437: a manual download does not touch the
\* cache.
ManualDoneClears(cs) ==
    /\ cache' = EmptyMap
    /\ calls' = AfterClear(cs)
ManualDone(cs) ==
    /\ cache' = cache
    /\ calls' = cs

\* The calls whose child was started before a re-install that now finishes.
Overtaken(cs) ==
    [d \in CallIds |-> IF cs[d].pc = "running" THEN [cs[d] EXCEPT !.stale = TRUE]
                       ELSE cs[d]]

\* axios.get settles: downloadScript finishes; a tick handler that awaited
\* it then clears the cache.
DownloadDone(i, resp) ==
    /\ i \in 1 .. Len(downloads)
    /\ LET d == downloads[i]
           f == Fetched(resp)
       IN  /\ script' = f.script
           /\ lastError' = f.lastError
           /\ downloads' = RemoveAt(downloads, i)
           /\ IF d.kind = "tick"
              THEN /\ TickClear(IF resp = "error" THEN calls ELSE Overtaken(calls), f.ok)
                   /\ ev' = Event("tickDone", d.task, f.ok, f.how)
              ELSE /\ ev' = Event("download", 0, f.ok, f.how)
                   /\ ManualDone(calls)
    /\ UNCHANGED << now, advances, scriptUrl, lastExecution, isRunning, cronJob,
                    updateInterval, tasks, taskSeq, temp, tfIn, fired >>

\* Lines 273-418: the template is written over the program.
CreateScriptTemplate(w) ==
    /\ IF w = "ok"
       THEN /\ script' = Template
            /\ UNCHANGED lastError
       ELSE /\ lastError' = "Template creation error"
            /\ UNCHANGED script
    /\ ev' = Event("createTemplate", 0, w = "ok", "")
    /\ UNCHANGED << now, advances, scriptUrl, cache, lastExecution, isRunning,
                    cronJob, updateInterval, tasks, taskSeq, temp, calls, downloads, tfIn, fired >>

\* What a program text does when run with --check is independent of the
\* marker test: Unmarked is a body with neither marker that prints the
\* readiness token, "bad" a body with neither marker that does not.
Unmarked == "unmarked"
HealthBodies == DownloadBodies \cup {Unmarked}

\* stdout.includes('resolver_ready') || stderr.includes('resolver_ready')
PrintsReady(body) == body \in {"v1", Template, Unmarked}

\* Lines 60-84.  rt: whether one of the two execAsync calls rejects (python
\* not invocable, or the program exits non-zero on --check).  The program
\* file is never removed, so the check is decided by the file that is on
\* disk when the --check child runs, and the operation is one step.
CheckScriptHealth(rt) ==
    /\ IF ~ ScriptExists
       THEN /\ rt = "ok"
            /\ lastError' = "Python resolver script not found"
            /\ ev' = Event("health", 0, FALSE, "missing")
       ELSE IF rt = "error"
       THEN /\ lastError' = "Verification error"
            /\ ev' = Event("health", 0, FALSE, "error")
       ELSE /\ ev' = Event("health", 0, PrintsReady(script), "checked")
            /\ UNCHANGED lastError
    /\ UNCHANGED << now, advances, script, scriptUrl, cache, lastExecution,
                    isRunning, cronJob, updateInterval, tasks, taskSeq, temp,
                    calls, downloads, tfIn, fired >>

\* Lines 263-267
ClearCache ==
    /\ cache' = EmptyMap
    /\ calls' = AfterClear(calls)
    /\ ev' = Event("clearCache", 0, TRUE, "")
    /\ UNCHANGED << now, advances, script, scriptUrl, lastExecution, lastError,
                    isRunning, cronJob, updateInterval, tasks, taskSeq, temp, downloads, tfIn, fired >>

(***************************************************************************)
(* scheduleUpdate, stopScheduledUpdates and the tick handler.  Inputs are   *)
(* strings written as sequences of one-character strings.                   *)
(***************************************************************************)
Digits == {"0", "1", "2", "3", "4", "5", "6", "7", "8", "9"}

DigitVal(ch) == CHOOSE n \in 0 .. 9 : ToString(n) = ch

\* /^\d{1,2}:\d{2}$/.test(timeFormat)
RegexTest(tf) ==
    \E n \in 1 .. 2 :
        /\ Len(tf) = n + 3
        /\ \A i \in 1 .. n : tf[i] \in Digits
        /\ tf[n + 1] = ":"
        /\ tf[n + 2] \in Digits
        /\ tf[n + 3] \in Digits

\* Number(s) of a string of digits
RECURSIVE NumberOf(_)
NumberOf(s) ==
    IF s = << >> THEN 0
    ELSE 10 * NumberOf(SubSeq(s, 1, Len(s) - 1)) + DigitVal(s[Len(s)])

\* timeFormat.split(':').map(Number) for a string that passed the test
ColonAt(tf) == CHOOSE i \in 1 .. Len(tf) : tf[i] = ":"
HoursOf(tf) == NumberOf(SubSeq(tf, 1, ColonAt(tf) - 1))
MinutesOf(tf) == NumberOf(SubSeq(tf, ColonAt(tf) + 1, Len(tf)))

\* hours < 0 || hours > 23 || minutes < 0 || minutes > 59
OutOfRangeLoose(hours, minutes) == hours < 0 \/ hours > 24 \/ minutes < 0 \/ minutes > 60
OutOfRange(hours, minutes) == hours < 0 \/ hours > 23 \/ minutes < 0 \/ minutes > 59

\* Lines 217-225: the five-field cron expression, by its minute and hour fields
CronExpression(hours, minutes) ==
    IF hours = 0
    THEN [minute |-> "*/" \o ToString(minutes), hour |-> "*"]
    ELSE [minute |-> ToString(minutes), hour |-> "*/" \o ToString(hours)]

\* node-cron rejects some expressions by throwing from cron.schedule; a step
\* of zero is the one expression of this program it may reject.
MayThrow(expr) == expr.minute = "*/0"

\* Lines 249-258 as a function of the state: the fields they leave behind and
\* the value they return.  cronJob.stop() removes the task from the running
\* tasks of node-cron.
StoppedKeepInterval ==
    IF cronJob # 0
    THEN [cronJob |-> 0, updateInterval |-> updateInterval,
          tasks |-> Without(tasks, {cronJob}), ret |-> TRUE]
    ELSE [cronJob |-> cronJob, updateInterval |-> updateInterval,
          tasks |-> tasks, ret |-> FALSE]
StoppedKeepTimer ==
    IF cronJob # 0
    THEN [cronJob |-> 0, updateInterval |-> None, tasks |-> tasks, ret |-> TRUE]
    ELSE [cronJob |-> cronJob, updateInterval |-> updateInterval,
          tasks |-> tasks, ret |-> FALSE]
Stopped ==
    IF cronJob # 0
    THEN [cronJob |-> 0, updateInterval |-> None,
          tasks |-> Without(tasks, {cronJob}), ret |-> TRUE]
    ELSE [cronJob |-> cronJob, updateInterval |-> updateInterval,
          tasks |-> tasks, ret |-> FALSE]

StopScheduledUpdates ==
    /\ cronJob' = Stopped.cronJob
    /\ updateInterval' = Stopped.updateInterval
    /\ tasks' = Stopped.tasks
    /\ ev' = Event("stop", 0, Stopped.ret, "")
    /\ UNCHANGED << now, advances, script, scriptUrl, cache, lastExecution,
                    lastError, isRunning, taskSeq, temp, calls, downloads, tfIn, fired >>

\* Line 236: this.updateInterval = timeFormat, the argument as it was passed.
RecordedIntervalPadded(tf) == Some(IF Len(tf) = 4 THEN << "0" >> \o tf ELSE tf)
RecordedInterval(tf) == Some(tf)

\* Lines 193-244.  cronThrows: whether cron.schedule throws.
ScheduleUpdate(tf, cronThrows) ==
    LET fail(msg, how) ==
            /\ cronJob' = Stopped.cronJob
            /\ updateInterval' = Stopped.updateInterval
            /\ tasks' = Stopped.tasks
            /\ lastError' = msg
            /\ ev' = Event("schedule", 0, FALSE, how)
            /\ UNCHANGED taskSeq
    IN
    /\ IF tf = << >> \/ ~ RegexTest(tf)
       THEN /\ ~ cronThrows
            /\ fail("Invalid time format. Use HH:MM or H:MM", "format")
       ELSE IF OutOfRange(HoursOf(tf), MinutesOf(tf))
       THEN /\ ~ cronThrows
            /\ fail("Invalid time. Hours: 0-23, Minutes: 0-59", "range")
       ELSE LET expr == CronExpression(HoursOf(tf), MinutesOf(tf))
            IN  IF cronThrows
                THEN /\ MayThrow(expr)
                     /\ fail("Scheduling error", "cron")
                ELSE /\ taskSeq < MaxTasks
                     /\ taskSeq' = taskSeq + 1
                     /\ tasks' = MapSet(Stopped.tasks, taskSeq + 1, expr)
                     /\ cronJob' = taskSeq + 1
                     /\ updateInterval' = RecordedInterval(tf)
                     /\ ev' = Event("schedule", taskSeq + 1, TRUE, "")
                     /\ UNCHANGED lastError
    /\ UNCHANGED << now, advances, script, scriptUrl, cache, lastExecution,
                    isRunning, temp, calls, downloads, tfIn, fired >>

\* Lines 227-234: a running cron task fires and its handler runs up to the
\* await of downloadScript, or to its end when no source URL is recorded.
TickHandlerClearFirst(t) ==
    /\ t \in DOMAIN tasks
    /\ TickClear(calls, TRUE)
    /\ IF scriptUrl # NULL
       THEN /\ Len(downloads) < MaxPending
            /\ BeginDownload(scriptUrl, "tick", t)
            /\ ev' = Event("tick", t, TRUE, "")
       ELSE /\ ev' = Event("tickDone", t, TRUE, "skipped")
            /\ UNCHANGED << scriptUrl, downloads >>
    /\ UNCHANGED << now, advances, script, lastExecution, lastError, isRunning,
                    cronJob, updateInterval, tasks, taskSeq, temp, tfIn >>
TickHandler(t) ==
    /\ t \in DOMAIN tasks
    /\ IF scriptUrl # NULL
       THEN /\ Len(downloads) < MaxPending
            /\ BeginDownload(scriptUrl, "tick", t)
            /\ ev' = Event("tick", t, TRUE, "")
            /\ UNCHANGED << cache, calls >>
       ELSE /\ TickClear(calls, TRUE)
            /\ ev' = Event("tickDone", t, TRUE, "skipped")
            /\ UNCHANGED << scriptUrl, downloads >>
    /\ UNCHANGED << now, advances, script, lastExecution, lastError, isRunning,
                    cronJob, updateInterval, tasks, taskSeq, temp, tfIn >>

\* A tick at an unspecified time.
Tick(t) == TickHandler(t) /\ UNCHANGED fired

(***************************************************************************)
(* The times at which node-cron fires a task: second 0 of every minute      *)
(* whose minute and hour match the fields of the expression (day, month and *)
(* weekday are "*").  Time 0 is midnight.                                    *)
(***************************************************************************)
Minute == 60000

\* A cron field: "*", a number, or "*/n" for the values divisible by n.
FieldMatches(field, v, top) ==
    \/ field = "*"
    \/ field = ToString(v)
    \/ \E n \in 1 .. top : field = "*/" \o ToString(n) /\ v % n = 0

CronMatches(expr, t) ==
    /\ t % Minute = 0
    /\ FieldMatches(expr.minute, (t \div Minute) % 60, 59)
    /\ FieldMatches(expr.hour, (t \div (60 * Minute)) % 24, 23)

\* The task t fires at the current minute and its handler runs.
CronFire(t) ==
    /\ t \in DOMAIN tasks
    /\ CronMatches(tasks[t], now)
    /\ ~ (fired.task = t /\ fired.at = now)
    /\ TickHandler(t)
    /\ fired' = [task |-> t, at |-> now,
                 gap |-> IF fired.task = t THEN now - fired.at ELSE NoTime]

\* A minute of wall-clock time passes; every running task that matches the
\* current minute has fired.
MinutePasses ==
    /\ now < MaxMinutes * Minute
    /\ \A t \in DOMAIN tasks :
          CronMatches(tasks[t], now) => fired.task = t /\ fired.at = now
    /\ now' = now + Minute
    /\ UNCHANGED << advances, script, scriptUrl, cache, lastExecution, lastError,
                    isRunning, cronJob, updateInterval, tasks, taskSeq, temp,
                    calls, downloads, tfIn, fired, ev >>

\* Accepted schedule inputs whose ticks are followed on the clock.
CronInputs ==
    { << "2", ":", "3", "0" >>, << "1", ":", "0", "0" >>,
      << "0", ":", "0", "7" >>, << "0", ":", "0", "5" >> }

\* Schedule inputs of the full specification.
ScheduleInputs ==
    { << "0", ":", "0", "5" >>, << "2", ":", "3", "0" >>,
      << "2", "4", ":", "0", "0" >>, << "1", ":", "6", "0" >>, << "0", ":", "5" >> }

\* All schedule inputs of at most MaxLen characters over a small alphabet.
Alphabet == {"0", "1", "2", "4", "6", ":", "x"}
AllInputs == UNION { [1 .. n -> Alphabet] : n \in 0 .. MaxLen }

\* A schedule input known to be accepted, to have a timer in place.
Setup == << "0", ":", "0", "5" >>

WriteOutcomes == {"ok", "ioerror"}   \* fs.writeFileSync returns or throws

ResolveSteps ==
    \/ \E c \in 1 .. MaxCalls, r \in Requests, w \in WriteOutcomes : ResolveLink(c, r, w)
    \/ \E c \in 1 .. MaxCalls, w \in WriteOutcomes : ResolveWake(c, w)
    \/ \E c \in 1 .. MaxCalls : ChildStart(c)
    \/ \E c \in 1 .. MaxCalls, o \in ChildOutcomes : ExecDone(c, o)

StoreSteps ==
    \/ \E u \in SourceUrls : DownloadScript(u)
    \/ \E i \in 1 .. MaxPending, resp \in Responses : DownloadDone(i, resp)
    \/ ClearCache

SchedulerSteps ==
    \/ \E tf \in ScheduleInputs, th \in BOOLEAN : ScheduleUpdate(tf, th)
    \/ StopScheduledUpdates
    \/ \E t \in 1 .. MaxTasks : Tick(t)

\* Every operation, under every interleaving.
Next ==
    \/ \E d \in Steps : Advance(d)
    \/ ResolveSteps
    \/ StoreSteps
    \/ \E w \in WriteOutcomes : CreateScriptTemplate(w)
    \/ \E rt \in {"ok", "error"} : CheckScriptHealth(rt)
    \/ SchedulerSteps

Spec == Init /\ [][Next]_vars

\* The execution engine with the program store and the cache, no scheduler.
NextResolve ==
    \/ \E d \in Steps : Advance(d)
    \/ ResolveSteps
    \/ StoreSteps

SpecResolve == Init /\ [][NextResolve]_vars

\* The scheduler with the program store and the cache, and one resolveLink
\* call at a fixed time.
NextScheduler ==
    \/ \E r \in Requests, w \in WriteOutcomes : ResolveLink(1, r, w)
    \/ ChildStart(1)
    \/ \E o \in ChildOutcomes : ExecDone(1, o)
    \/ StoreSteps
    \/ \E w \in WriteOutcomes : CreateScriptTemplate(w)
    \/ SchedulerSteps

SpecScheduler == Init /\ [][NextScheduler]_vars

\* scheduleUpdate applied to one input string drawn from AllInputs, with or
\* without a timer in place, with stop and ticks.
InitInputs ==
    /\ now = 0
    /\ advances = 0
    /\ script = NoScript
    /\ scriptUrl = NULL
    /\ cache = EmptyMap
    /\ lastExecution = NoTime
    /\ lastError = NULL
    /\ isRunning = FALSE
    /\ cronJob = 0
    /\ updateInterval = None
    /\ tasks = EmptyMap
    /\ taskSeq = 0
    /\ temp = EmptyMap
    /\ calls = [c \in CallIds |-> IdleCall]
    /\ downloads = << >>
    /\ tfIn \in AllInputs
    /\ fired = NoFire
    /\ ev = Event("init", 0, TRUE, "")

NextInputs ==
    \/ \E th \in BOOLEAN : ScheduleUpdate(tfIn, th)
    \/ ScheduleUpdate(Setup, FALSE)
    \/ StopScheduledUpdates
    \/ \E t \in 1 .. MaxTasks : Tick(t)

SpecInputs == InitInputs /\ [][NextInputs]_vars

\* Three resolveLink calls with the template as the program: the calls may
\* overlap, wait and wake in every order.
NextPaths ==
    \/ \E d \in Steps : Advance(d)
    \/ CreateScriptTemplate("ok")
    \/ \E c \in CallIds, r \in Requests : ResolveLink(c, r, "ok")
    \/ \E c \in CallIds : ResolveWake(c, "ok")
    \/ \E c \in CallIds : ChildStart(c)
    \/ \E c \in CallIds, o \in ChildOutcomes : ExecDone(c, o)

SpecPaths == Init /\ [][NextPaths]_vars

\* The program file is removed from outside the process (nothing in the class
\* deletes it); lines 104-108 are where resolveLink finds it gone.
ScriptRemoved ==
    /\ script # NoScript
    /\ script' = NoScript
    /\ ev' = Event("scriptRemoved", 0, TRUE, "")
    /\ UNCHANGED << now, advances, scriptUrl, cache, lastExecution, lastError,
                    isRunning, cronJob, updateInterval, tasks, taskSeq, temp,
                    calls, downloads, tfIn, fired >>

\* Three resolveLink calls with a program file that comes (the template) and
\* goes (removed from outside).
NextFrame ==
    \/ \E d \in Steps : Advance(d)
    \/ CreateScriptTemplate("ok")
    \/ ScriptRemoved
    \/ \E c \in CallIds, r \in Requests : ResolveLink(c, r, "ok")
    \/ \E c \in CallIds : ResolveWake(c, "ok")
    \/ \E c \in CallIds : ChildStart(c)
    \/ \E c \in CallIds, o \in ChildOutcomes : ExecDone(c, o)

SpecFrame == Init /\ [][NextFrame]_vars

\* Line 111: the clock reaches the time for which the timer of a waiting call
\* was set.
Elapse(c) ==
    /\ calls[c].pc = "backoff"
    /\ now < calls[c].wakeAt
    /\ now' = calls[c].wakeAt
    /\ ev' = Event("elapse", c, TRUE, "")
    /\ UNCHANGED << advances, script, scriptUrl, cache, lastExecution, lastError,
                    isRunning, cronJob, updateInterval, tasks, taskSeq, temp,
                    calls, downloads, tfIn, fired >>

\* resolveLink calls whose timers fire.  The timer, the spawn and the exit of
\* the child of the second call are fair: setTimeout fires, the event loop
\* runs the continuation, and the child is assumed to exit.  The first call
\* has no such assumption: its child may run for ever.
NextLive ==
    \/ CreateScriptTemplate("ok")
    \/ \E c \in 1 .. MaxCalls : Elapse(c)
    \/ \E c \in 1 .. MaxCalls, r \in Requests, w \in WriteOutcomes : ResolveLink(c, r, w)
    \/ \E c \in 1 .. MaxCalls, w \in WriteOutcomes : ResolveWake(c, w)
    \/ \E c \in 1 .. MaxCalls : ChildStart(c)
    \/ \E c \in 1 .. MaxCalls, o \in ChildOutcomes : ExecDone(c, o)

SpecLive ==
    /\ Init
    /\ [][NextLive]_vars
    /\ WF_vars(Elapse(2))
    /\ WF_vars(\E w \in WriteOutcomes : ResolveWake(2, w))
    /\ WF_vars(ChildStart(2))
    /\ WF_vars(\E o \in ChildOutcomes : ExecDone(2, o))

\* resolveLink calls one after the other, with every way of installing a
\* program and of emptying the cache in between: manual download, template,
\* clear, and a timer's tick.
NextInstall ==
    \/ \E c \in 1 .. MaxCalls, r \in Requests :
          /\ \A d \in 1 .. MaxCalls : calls[d].pc \in {"idle", "done"}
          /\ ResolveLink(c, r, "ok")
    \/ \E c \in 1 .. MaxCalls : ChildStart(c)
    \/ \E c \in 1 .. MaxCalls : ExecDone(c, "ok")
    \/ StoreSteps
    \/ \E w \in WriteOutcomes : CreateScriptTemplate(w)
    \/ ScheduleUpdate(Setup, FALSE)
    \/ \E t \in 1 .. MaxTasks : Tick(t)

SpecInstall == Init /\ [][NextInstall]_vars

\* The URLs of manual downloads when the URL a tick uses is to be told apart.
TickUrls == SourceUrls \cup {"s2"}

\* A timer and its ticks, with manual downloads from two URLs, the template,
\* and one resolveLink call to put an entry in the cache.
NextTick ==
    \/ \E r \in Requests : ResolveLink(1, r, "ok")
    \/ ChildStart(1)
    \/ ExecDone(1, "ok")
    \/ \E u \in TickUrls : DownloadScript(u)
    \/ \E i \in 1 .. MaxPending, resp \in Responses : DownloadDone(i, resp)
    \/ CreateScriptTemplate("ok")
    \/ ScheduleUpdate(Setup, FALSE)
    \/ StopScheduledUpdates
    \/ \E t \in 1 .. MaxTasks : Tick(t)

SpecTick == Init /\ [][NextTick]_vars

\* The program store and the health check, with every kind of body, and one
\* resolveLink call.
NextHealth ==
    \/ \E r \in Requests, w \in WriteOutcomes : ResolveLink(1, r, w)
    \/ ChildStart(1)
    \/ \E o \in ChildOutcomes : ExecDone(1, o)
    \/ \E u \in SourceUrls : DownloadScript(u)
    \/ \E i \in 1 .. MaxPending, resp \in {"error"} \cup HealthBodies :
          DownloadDone(i, resp)
    \/ \E w \in WriteOutcomes : CreateScriptTemplate(w)
    \/ \E rt \in {"ok", "error"} : CheckScriptHealth(rt)

SpecHealth == Init /\ [][NextHealth]_vars

\* One accepted schedule input, and its timer followed minute by minute.
InitCron ==
    /\ now = 0
    /\ advances = 0
    /\ script = NoScript
    /\ scriptUrl = NULL
    /\ cache = EmptyMap
    /\ lastExecution = NoTime
    /\ lastError = NULL
    /\ isRunning = FALSE
    /\ cronJob = 0
    /\ updateInterval = None
    /\ tasks = EmptyMap
    /\ taskSeq = 0
    /\ temp = EmptyMap
    /\ calls = [c \in CallIds |-> IdleCall]
    /\ downloads = << >>
    /\ tfIn \in CronInputs
    /\ fired = NoFire
    /\ ev = Event("init", 0, TRUE, "")

NextCron ==
    \/ ScheduleUpdate(tfIn, FALSE)
    \/ MinutePasses
    \/ \E t \in 1 .. MaxTasks : CronFire(t)

SpecCron == InitCron /\ [][NextCron]_vars

(***************************************************************************)
(* Properties.                                                              *)
(***************************************************************************)
InFlight == { c \in CallIds : calls[c].pc \in {"spawned", "running"} }

FailureOutcomes == {"missing", "exec", "nooutput", "parse"}

\* C1: in every reachable state at most one external invocation started by
\* resolveLink is running.  (Violated: the throttle waits once and proceeds.)
C1_AtMostOneInvocation == Cardinality(InFlight) <= 1

C3_ExpiryBoundary ==
    \A c \in CallIds :
        /\ calls[c].found >= 20 * 60 * 1000 =>
              calls[c].outcome \in {"none", "ok", "parse", "nooutput", "exec"}
        /\ (calls[c].found >= 0 /\ calls[c].found < 20 * 60 * 1000) =>
              calls[c].pc = "done" /\ calls[c].outcome = "hit"

C3_Witness ==
    \E c \in CallIds : calls[c].found = 20 * 60 * 1000 /\ calls[c].outcome = "ok"

\* C4: when the handler of a scheduled tick finishes, the cache is empty,
\* whether the re-install succeeded, failed at fetch, failed the marker
\* validation or was skipped for want of a source URL.
C4_TickLeavesCacheEmpty == ev.op = "tickDone" => cache = EmptyMap

C4_Witness ==
    /\ ev.op = "tickDone"
    /\ ev.how = "fetch"
    /\ calls[1].outcome = "ok"
    /\ cache = EmptyMap

\* C5: once a scheduled re-install has completed, the cache holds no entry
\* computed by an invocation started before it.  (Violated: a call in flight
\* during the tick stores its result after the clear.)
C5_NoEntryFromBeforeReinstall ==
    \A c \in CallIds : calls[c].stale => calls[c].storedAt = NoTime

\* C6: every outcome of resolveLink other than a cache hit or a successful
\* parse returns null with lastError set, and the call returns normally.
C6_FailuresReturnNull ==
    /\ \A c \in CallIds :
          calls[c].pc = "done" =>
              /\ calls[c].outcome \in FailureOutcomes \cup {"hit", "ok"}
              /\ calls[c].outcome \in FailureOutcomes => calls[c].ret = None
    /\ (ev.op = "resolveReturn" /\ ev.how \in FailureOutcomes) =>
          /\ calls[ev.id].pc = "done"
          /\ calls[ev.id].outcome = ev.how
          /\ lastError # NULL

C6_Witness ==
    /\ ev.op = "resolveReturn"
    /\ ev.how = "nooutput"
    /\ calls[ev.id].ret = None
    /\ lastError = "Output file not created"

\* C7: resolveLink called with no program on disk returns null with the
\* program-missing message, without a process, a temp file, a wait, or
\* isRunning changing.
C7_ProgramMissing ==
    [][ \A c \in CallIds :
          (calls[c].pc = "idle" /\ calls'[c].pc # "idle" /\ script = NoScript) =>
              /\ calls'[c].pc = "done"
              /\ calls'[c].outcome = "missing"
              /\ calls'[c].ret = None
              /\ lastError' = "Python resolver script not found"
              /\ temp' = temp
              /\ isRunning' = isRunning ]_vars

C7_Witness ==
    /\ ev.op = "resolveReturn"
    /\ ev.how = "missing"
    /\ script = NoScript
    /\ scriptUrl # NULL
    /\ temp = EmptyMap
    /\ ~ isRunning

\* C8: at most one cron task is running, it is the one created last, and a
\* tick is fired only by it.
C8_OneTimer ==
    /\ Cardinality(DOMAIN tasks) <= 1
    /\ DOMAIN tasks \subseteq {taskSeq}
    /\ cronJob # 0 => cronJob \in DOMAIN tasks
    /\ (ev.op = "tick" \/ (ev.op = "tickDone" /\ ev.how = "skipped")) =>
          ev.id = taskSeq

C8_Witness ==
    /\ taskSeq = 2
    /\ DOMAIN tasks = {2}
    /\ ev.op \in {"tick", "tickDone"}
    /\ ev.id = 2

\* C9: a scheduleUpdate call with malformed or out-of-range input leaves the
\* existing schedule as it was.  (Violated: the schedule is stopped before
\* the input is validated.)
C9_InvalidInputKeepsSchedule ==
    [][ (ev'.op = "schedule" /\ ev'.how \in {"format", "range"}) =>
          /\ cronJob' = cronJob
          /\ updateInterval' = updateInterval
          /\ tasks' = tasks ]_vars

\* One or two digits, a colon and two digits, read from the end of the string.
WellFormed(tf) ==
    /\ Len(tf) \in {4, 5}
    /\ tf[Len(tf) - 2] = ":"
    /\ \A i \in 1 .. Len(tf) : i # Len(tf) - 2 => tf[i] \in Digits

Rejected(tf) ==
    \/ ~ WellFormed(tf)
    \/ NumberOf(SubSeq(tf, 1, Len(tf) - 3)) > 23
    \/ NumberOf(SubSeq(tf, Len(tf) - 1, Len(tf))) > 59

\* C10: scheduleUpdate fails, sets lastError and leaves no timer for every
\* input that is not one or two digits, a colon and two digits, and for
\* every H:MM with H above 23 or MM above 59.  (The other schedule call of
\* the specification, with the accepted input Setup, is the one that may
\* succeed.)
C10_InvalidInputFails ==
    (Rejected(tfIn) /\ ev.op = "schedule") =>
        \/ ev.ok /\ updateInterval = Some(Setup) /\ tfIn # Setup
        \/ /\ ~ ev.ok
           /\ lastError # NULL
           /\ tasks = EmptyMap
           /\ cronJob = 0

C10_Witness ==
    /\ tfIn = << "2", "4", ":", "0", "0" >>
    /\ taskSeq = 1
    /\ ev.op = "schedule"
    /\ ~ ev.ok
    /\ lastError = "Invalid time. Hours: 0-23, Minutes: 0-59"
    /\ tasks = EmptyMap

\* The interval a successful schedule input asks for, in milliseconds.
IntervalOf(tf) == (HoursOf(tf) * 60 + MinutesOf(tf)) * Minute

\* C11: after a successful schedule("H:MM") with H from 1 to 23, two
\* consecutive ticks of the timer are H*60+MM minutes apart.  (Violated: the
\* expression "MM */H * * *" fires at minute MM of every H-th hour of the day.)
C11_HourlyInterval ==
    (HoursOf(tfIn) >= 1 /\ fired.task # 0 /\ fired.gap # NoTime) =>
        fired.gap = IntervalOf(tfIn)

\* C12: after a successful schedule("0:MM") with MM from 1 to 59, two
\* consecutive ticks of the timer are MM minutes apart, across the hour
\* boundary too.  (Violated: "*/MM * * * *" starts again at minute 0 of
\* every hour.)
C12_MinuteInterval ==
    (HoursOf(tfIn) = 0 /\ MinutesOf(tfIn) >= 1 /\ fired.task # 0
       /\ fired.gap # NoTime) =>
        fired.gap = IntervalOf(tfIn)

\* C13: stopScheduledUpdates returns true exactly when a timer was active;
\* after it no timer is active and the recorded interval is null; a stop
\* that follows a stop returns false and changes nothing.
C13_StopIdempotent ==
    [][ ev'.op = "stop" =>
          /\ ev'.ok = (cronJob # 0)
          /\ cronJob' = 0
          /\ updateInterval' = None
          /\ tasks' = EmptyMap
          /\ ev.op = "stop" =>
                /\ ~ ev'.ok
                /\ UNCHANGED << cronJob, updateInterval, tasks, taskSeq, lastError,
                                script, scriptUrl, cache, downloads >> ]_vars

C13_Witness ==
    /\ ev.op = "stop"
    /\ ev.ok
    /\ taskSeq = 2
    /\ cronJob = 0
    /\ updateInterval = None
    /\ tasks = EmptyMap

\* C14: an install whose body has neither marker returns failure with
\* lastError set, and a health check made while that body is on disk fails.
\* (Violated: the body is written before the marker test, and the health
\* check looks only for the readiness token.)
C14_UnmarkedInstallUnhealthy ==
    /\ (ev.op = "download" /\ ev.how = "marker") =>
          ~ ev.ok /\ lastError # NULL
    /\ (ev.op = "health" /\ ScriptExists /\ ~ HasMarker(script)) => ~ ev.ok

\* C15: a resolveLink call that set isRunning sets it back to false when it
\* returns, on the success, parse-failure, output-missing and process-failure
\* paths; so isRunning is false whenever no call is in progress.
C15_FlagReleased ==
    /\ (ev.op = "resolveReturn" /\ ev.how \in {"ok", "parse", "nooutput", "exec"}) =>
          ~ isRunning
    /\ (\A c \in CallIds : calls[c].pc \in {"idle", "done"}) => ~ isRunning

C15_Witness ==
    /\ calls[1].outcome = "parse"
    /\ calls[2].outcome = "nooutput"
    /\ ev.op = "resolveReturn"
    /\ ~ isRunning

\* C16: scriptUrl is the URL the program on disk was last downloaded from,
\* and null when no downloaded program is on disk (nothing, or the template).
\* Stated for the states in which no download is awaiting its response.
\* (Violated: scriptUrl is assigned before the fetch, and installing the
\* template leaves it as it was.)
C16_SourceUrlIsOrigin ==
    downloads = << >> =>
        /\ script \in {NoScript, Template} => scriptUrl = NULL
        /\ script \in DownloadBodies => scriptUrl \in SourceUrls

\* C17: isRunning is true in every state in which an external invocation
\* started by resolveLink has not completed.  (Violated: of two overlapping
\* calls, the one that finishes first sets the flag to false.)
C17_FlagWhileInFlight == InFlight # {} => isRunning

\* The calls that hold temp paths: past line 127 and not yet returned.
Holding == { c \in CallIds : calls[c].inputFile # None }

\* C18: no two resolveLink calls use the same input path or the same output
\* path, and the two paths of one call differ.  (Violated: the paths are
\* named by Date.now(), and two calls can reach line 126 in the same
\* millisecond.)
C18_DistinctPaths ==
    \A c, d \in Holding :
        /\ calls[c].inputFile # calls[c].outputFile
        /\ c # d => /\ calls[c].inputFile # calls[d].inputFile
                    /\ calls[c].outputFile # calls[d].outputFile

\* C19: every cache entry stored under a key holds a result the program
\* produced from an input with the url and headers of that key.  (Violated:
\* a call whose input file was overwritten by a call with the same path
\* caches the other request's result.)
C19_EntryMatchesKey ==
    \A k \in DOMAIN cache :
        CacheKey(cache[k].data.input.url, cache[k].data.input.headers) = k

\* C20 as stated: a resolveLink call that arrives while another call for the
\* same key is in flight heads for its own external process.  (Violated
\* with three calls: the first has stored its result, the second is still in
\* flight, and the third is a cache hit.)
C20_SpawnsWhenInFlight ==
    [][ \A c \in CallIds :
          (/\ calls[c].pc = "idle"
           /\ calls'[c].pc # "idle"
           /\ \E d \in InFlight : calls[d].key = calls'[c].key) =>
              calls'[c].pc \in {"backoff", "spawned"} ]_vars

\* C20: a resolveLink call that arrives while another call for the same key
\* is in flight, and meets no fresh cache entry, is not answered from that
\* call: it waits or goes on to its own invocation; and a call that leaves
\* the wait goes on to its own invocation (or fails writing its input file)
\* without consulting the cache again, even when the first call has stored
\* its result meanwhile.
C20_NoDeduplication ==
    [][ \A c \in CallIds :
          /\ (calls[c].pc = "backoff" /\ calls'[c].pc # "backoff") =>
                \/ calls'[c].pc = "spawned"
                \/ calls'[c].pc = "done" /\ calls'[c].outcome = "exec"
          /\ (/\ calls[c].pc = "idle"
              /\ calls'[c].pc # "idle"
              /\ ~ CacheHit(calls'[c].key)
              /\ \E d \in InFlight : calls[d].key = calls'[c].key) =>
                \/ calls'[c].pc \in {"backoff", "spawned"}
                \/ calls'[c].pc = "done" /\ calls'[c].outcome = "exec" ]_vars

C20_Witness ==
    \E c, d \in CallIds :
        /\ calls[c].pc = "spawned"
        /\ calls[c].found = NoTime
        /\ calls[d].outcome = "ok"
        /\ calls[d].key = calls[c].key
        /\ CacheHit(calls[c].key)
        /\ cache[calls[c].key].timestamp > 0
        /\ cache[calls[c].key].timestamp < calls[c].inputFile[1][2]

\* C21: a resolveLink call waits only on arrival, when isRunning is true,
\* and for one backoff; its wake-up time never moves, and when it leaves the
\* wait it goes on to the invocation whether or not isRunning is still true.
C21_SingleBackoff ==
    [][ \A c \in CallIds :
          /\ calls'[c].pc = "backoff" =>
                \/ /\ calls[c].pc = "idle"
                   /\ isRunning
                   /\ calls'[c].wakeAt = now + Backoff
                \/ /\ calls[c].pc = "backoff"
                   /\ calls'[c].wakeAt = calls[c].wakeAt
          /\ (calls[c].pc = "backoff" /\ calls'[c].pc # "backoff") =>
                /\ now >= calls[c].wakeAt
                /\ calls'[c].pc \in {"spawned", "done"}
                /\ calls'[c].pc = "done" => calls'[c].outcome = "exec" ]_vars

C21_Witness ==
    /\ calls[1].pc = "running"
    /\ calls[2].pc = "spawned"
    /\ calls[2].inputFile = Some(InputPath(Backoff))
    /\ isRunning

\* C22: when a call's child exits without error and its output file parses,
\* the call returns the parsed result, and in the state at return the cache
\* maps the call's key to exactly that result with timestamp equal to the
\* completion time, lastError is null and lastExecution is the completion
\* time.
C22_SuccessEffects ==
    [][ \A c \in CallIds :
          (calls[c].pc \in {"spawned", "running"} /\ calls'[c].pc = "done"
             /\ calls'[c].outcome = "ok") =>
            /\ calls[c].child # None
            /\ calls'[c].ret # None
            /\ \/ calls'[c].ret[1] = ResultOf(calls[c].child[1])
               \/ /\ calls[c].outputFile[1] \in DOMAIN temp
                  /\ Parses(temp[calls[c].outputFile[1]])
                  /\ calls'[c].ret[1] = temp[calls[c].outputFile[1]][2]
            /\ calls[c].key \in DOMAIN cache'
            /\ cache'[calls[c].key] = [timestamp |-> now, data |-> calls'[c].ret[1]]
            /\ lastError' = NULL
            /\ lastExecution' = now
            /\ now' = now ]_vars

C22_Witness ==
    /\ calls[1].outcome = "parse"
    /\ calls[2].outcome = "ok"
    /\ ev = Event("resolveReturn", 2, TRUE, "ok")
    /\ now > 0
    /\ lastExecution = now
    /\ lastError = NULL
    /\ cache[calls[2].key] = [timestamp |-> now, data |-> calls[2].ret[1]]
    /\ calls[2].ret[1].by = script

\* C23: a download that fails the marker check has already replaced the
\* program file with the downloaded body (the previous program is gone and a
\* child started afterwards runs the new body), whereas a download that fails
\* at the fetch leaves the program file exactly as it was.
C23_MarkerFailureReplaces ==
    [][ /\ (Len(downloads') < Len(downloads) /\ ev'.how = "marker") =>
              /\ ~ ev'.ok
              /\ script' \in DownloadBodies
              /\ ~ HasMarker(script')
        /\ (Len(downloads') < Len(downloads) /\ ev'.how = "fetch") =>
              /\ ~ ev'.ok
              /\ script' = script
        /\ \A c \in CallIds :
               (calls[c].pc = "spawned" /\ calls'[c].pc = "running") =>
                  calls'[c].child[1].prog = script ]_vars

C23_Witness ==
    /\ calls[1].outcome = "ok"
    /\ HasMarker(calls[1].ret[1].by)
    /\ script \in DownloadBodies
    /\ ~ HasMarker(script)
    /\ lastError = "The script must contain a resolve_link or resolve_stream function"
    /\ calls[2].pc = "running"
    /\ calls[2].child[1].prog = script

\* C24: once stopScheduledUpdates, or a scheduleUpdate that replaces the
\* timer, has returned, the stopped task re-installs nothing and clears
\* nothing: a tick handler of a task that is no longer scheduled, finishing
\* the download it was awaiting, changes neither the program file nor the
\* cache.
C24_NoEffectAfterStop ==
    [][ (/\ Len(downloads') < Len(downloads)
         /\ ev'.op = "tickDone"
         /\ ev'.id \notin DOMAIN tasks) =>
            /\ script' = script
            /\ cache' = cache ]_vars

\* C25: when two resolveLink calls with the same key overlap and both
\* succeed, with no clear in between, the cache afterwards holds the result of
\* the call whose child completed last, even if that call started first: a
\* successful completion overwrites whatever entry its key has.
C25_LastCompletionWins ==
    [][ \A c \in CallIds :
          (calls[c].pc \in {"spawned", "running"} /\ calls'[c].pc = "done"
             /\ calls'[c].outcome = "ok") =>
            /\ cache'[calls[c].key].data = calls'[c].ret[1]
            /\ calls'[c].storedAt = now
            /\ \A d \in CallIds \ {c} :
                 calls[d].key = calls[c].key => calls'[d].storedAt = NoTime ]_vars

\* Call 1 arrived first and was invoked at once, call 2 arrived during it and
\* completed first, call 1 completed last and its result is the entry.
C25_Witness ==
    /\ calls[1].outcome = "ok"
    /\ calls[2].outcome = "ok"
    /\ calls[1].key = calls[2].key
    /\ calls[1].ret # calls[2].ret
    /\ calls[2].found = NoTime
    /\ calls[1].storedAt > 0
    /\ calls[2].storedAt = NoTime
    /\ cache[calls[1].key].data = calls[1].ret[1]
    /\ ev = Event("resolveReturn", 1, TRUE, "ok")

\* C26: a cache entry is never refreshed in place: a hit leaves the entry's
\* data and timestamp as they are, an entry is served only while less than
\* cacheExpiryTime has passed since it was stored, and an entry changes only
\* by being replaced by a successful resolveLink of the same key or removed
\* by a clear.
C26_NeverRefreshed ==
    [][ /\ \A k \in DOMAIN cache :
             \/ k \in DOMAIN cache' /\ cache'[k] = cache[k]
             \/ cache' = EmptyMap /\ ev'.op \in {"clearCache", "tickDone"}
             \/ /\ k \in DOMAIN cache'
                /\ \E c \in CallIds :
                     /\ calls[c].pc \in {"spawned", "running"}
                     /\ calls'[c].pc = "done"
                     /\ calls'[c].outcome = "ok"
                     /\ calls[c].key = k
                     /\ cache'[k] = [timestamp |-> now, data |-> calls'[c].ret[1]]
        /\ \A c \in CallIds :
             (calls[c].pc = "idle" /\ calls'[c].outcome = "hit") =>
                /\ cache' = cache
                /\ calls'[c].key \in DOMAIN cache
                /\ now - cache[calls'[c].key].timestamp < cacheExpiryTime
                /\ calls'[c].ret = Some(cache[calls'[c].key].data) ]_vars

\* Two hits on one entry, the second just before it expires: the entry still
\* carries the time at which it was stored.
C26_Witness ==
    /\ calls[1].outcome = "ok"
    /\ calls[2].outcome = "hit"
    /\ calls[2].found > 0
    /\ calls[2].key = calls[1].key
    /\ calls[2].key \in DOMAIN cache
    /\ cache[calls[2].key].timestamp = calls[1].storedAt
    /\ now - cache[calls[2].key].timestamp = calls[2].found
    /\ ev = Event("resolveReturn", 2, TRUE, "hit")

\* C27: a resolveLink call that finds a non-expired entry under its key
\* returns that entry's data in the step in which it arrives, without the
\* backoff wait, and changes nothing: isRunning, lastExecution, lastError,
\* the cache, the temporary files and the program file are as before, even
\* when isRunning is true and even when the program file is missing.
C27_HitChangesNothing ==
    [][ \A c \in CallIds :
          (/\ calls[c].pc = "idle"
           /\ calls'[c].pc # "idle"
           /\ calls'[c].found # NoTime
           /\ calls'[c].found < cacheExpiryTime) =>
             /\ calls'[c].pc = "done"
             /\ calls'[c].outcome = "hit"
             /\ calls'[c].ret = Some(cache[calls'[c].key].data)
             /\ \A d \in CallIds \ {c} : calls'[d] = calls[d]
             /\ UNCHANGED << now, isRunning, lastExecution, lastError, cache,
                             temp, script >> ]_vars

\* A hit while another call's child is running, with the program file gone.
C27_Witness ==
    /\ calls[1].outcome = "ok"
    /\ calls[2].pc = "spawned"
    /\ calls[3].outcome = "hit"
    /\ isRunning
    /\ script = NoScript
    /\ lastError = NULL
    /\ temp # EmptyMap
    /\ ev = Event("resolveReturn", 3, TRUE, "hit")

\* C28: the temporary files are transient: when every resolveLink call that
\* has started has returned (by success, unparseable output, missing output
\* or process failure), no input or output file created by a call remains.
C28_NoFilesRemain ==
    (\A c \in CallIds : calls[c].pc \in {"idle", "done"}) => temp = EmptyMap

\* C29: under fairness of its own timer and child, a resolveLink call that
\* has not returned at once eventually returns (a result or null), whatever
\* the other call does: the one backoff wait ends and nothing else blocks it.
\* A call whose child was spawned returns only in a step in which that child
\* exits or fails, so a call whose child never exits never returns.
C29_ReturnsIffChildExits ==
    /\ (calls[2].pc \in {"backoff", "spawned", "running"}) ~> (calls[2].pc = "done")
    /\ [][ \A c \in CallIds :
             (calls[c].pc \in {"spawned", "running"} /\ calls'[c].pc = "done") =>
                \E o \in ChildOutcomes : ExecDone(c, o) ]_vars

\* The second call waited its backoff and returned while the child of the
\* first call is still running.
C29_Witness ==
    /\ calls[1].pc = "running"
    /\ calls[2].pc = "done"
    /\ calls[2].outcome = "ok"
    /\ now = Backoff
    /\ ev = Event("resolveReturn", 2, TRUE, "ok")

\* getStatus, line 433: cacheItems is resolvedLinksCache.size
CacheItems == Cardinality(DOMAIN cache)

\* C30: a resolveLink call that fails (program missing, process error, output
\* missing, parse error) leaves the cache and lastExecution unchanged: none of
\* its steps, from its arrival to its failing return, adds, removes or
\* modifies an entry, and an expired entry it found under its key stays in the
\* map and is still counted by the cacheItems of getStatus.
C30_FailureKeepsCache ==
    [][ \A c \in CallIds :
          (/\ calls'[c].pc # calls[c].pc
           /\ ~ (calls'[c].pc = "done" /\ calls'[c].outcome \in {"ok", "hit"})) =>
            /\ cache' = cache
            /\ lastExecution' = lastExecution
            /\ CacheItems' = CacheItems
            /\ (calls[c].pc = "idle" /\ calls'[c].found # NoTime) =>
                  /\ calls'[c].found >= cacheExpiryTime
                  /\ calls'[c].key \in DOMAIN cache'
                  /\ CacheItems' >= 1 ]_vars

\* The second call found the entry of the first one expired and failed: the
\* entry is still in the map, with the time of the first call.
C30_Witness ==
    /\ calls[1].outcome = "ok"
    /\ calls[2].outcome \in FailureOutcomes
    /\ calls[2].key = calls[1].key
    /\ calls[2].found >= cacheExpiryTime
    /\ calls[2].key \in DOMAIN cache
    /\ cache[calls[2].key].timestamp = calls[1].storedAt
    /\ CacheItems = 1
    /\ lastExecution = calls[1].storedAt
    /\ ev.op = "resolveReturn" /\ ev.id = 2

\* C31: a manual download and createScriptTemplate never modify the cache:
\* an entry computed by the program installed before stays in the map and is
\* returned by resolveLink after the program file has been replaced; the
\* cache loses an entry only in a clearCache or in a tick handler.
C31_InstallKeepsCache ==
    [][ /\ (script' # script /\ ev'.op # "tickDone") => cache' = cache
        /\ ev'.op \in {"downloadStart", "download", "createTemplate"} => cache' = cache
        /\ (\E k \in DOMAIN cache : k \notin DOMAIN cache') =>
              /\ ev'.op \in {"clearCache", "tickDone"}
              /\ cache' = EmptyMap ]_vars

\* The first call was answered by a downloaded program; the template was then
\* installed over it; the second call is served the first call's result.
C31_Witness ==
    /\ calls[1].outcome = "ok"
    /\ calls[1].ret[1].by \in DownloadBodies
    /\ script = Template
    /\ calls[2].outcome = "hit"
    /\ calls[2].ret = calls[1].ret
    /\ cache[calls[2].key].data.by # script
    /\ ev = Event("resolveReturn", 2, TRUE, "hit")

\* getStatus, line 432: scheduledUpdates is this.cronJob !== null
ScheduledUpdates == cronJob # 0

\* C32: in every reachable state a timer is active (scheduledUpdates) if and
\* only if updateInterval is non-null, and a non-null updateInterval is the
\* string passed to the most recent successful scheduleUpdate: the active
\* timer is the last one created and runs the expression made from that
\* string, and updateInterval takes a new non-null value only in a successful
\* scheduleUpdate, which records its argument.
C32_StatusAgrees ==
    /\ [] /\ ScheduledUpdates <=> (updateInterval # None)
          /\ ScheduledUpdates =>
               /\ cronJob = taskSeq
               /\ ~ Rejected(updateInterval[1])
               /\ tasks = MapSet(EmptyMap, cronJob,
                                 CronExpression(HoursOf(updateInterval[1]),
                                                MinutesOf(updateInterval[1])))
    /\ [][ /\ \A tf \in {tfIn, Setup} :
                (ScheduleUpdate(tf, FALSE) /\ ev'.ok) => updateInterval' = Some(tf)
           /\ (updateInterval' # updateInterval /\ updateInterval' # None) =>
                (ev'.op = "schedule" /\ ev'.ok /\ taskSeq' = taskSeq + 1) ]_vars

\* A second successful scheduleUpdate, with another string, replaced the
\* first: the status shows the second string.
C32_Witness ==
    /\ ev.op = "schedule"
    /\ ev.ok
    /\ taskSeq = 2
    /\ ScheduledUpdates
    /\ tfIn # Setup
    /\ updateInterval = Some(tfIn)
    /\ HoursOf(tfIn) > 0

\* C33: on a tick a re-install is started exactly when scriptUrl is recorded,
\* from that URL, and the cache is cleared only when that re-install attempt
\* has finished, whatever its result; with no scriptUrl recorded the tick
\* leaves the program file and scriptUrl as they are and only clears the cache.
C33_TickOrder ==
    [][ /\ (ev'.op = "tick" /\ ev' # ev) => Len(downloads') = Len(downloads) + 1
        /\ (ev'.op = "tick" /\ Len(downloads') > Len(downloads)) =>
              /\ scriptUrl # NULL
              /\ downloads' = Append(downloads, [url |-> scriptUrl, kind |-> "tick",
                                                 task |-> ev'.id])
              /\ ev'.id \in DOMAIN tasks
              /\ UNCHANGED << cache, script, scriptUrl >>
        /\ (ev'.op = "tickDone" /\ ev'.how # "skipped"
              /\ Len(downloads') < Len(downloads)) =>
              /\ \E i \in 1 .. Len(downloads) :
                   /\ downloads[i].kind = "tick"
                   /\ downloads[i].task = ev'.id
                   /\ downloads' = RemoveAt(downloads, i)
              /\ cache' = EmptyMap
        /\ (ev'.op = "tickDone" /\ ev'.how = "skipped") =>
              /\ scriptUrl = NULL
              /\ cache' = EmptyMap
              /\ UNCHANGED << script, scriptUrl, downloads >>
        /\ (\E i \in 1 .. Len(downloads') :
              downloads'[i].kind = "tick" /\ downloads' # downloads
              /\ Len(downloads') > Len(downloads)
              /\ i = Len(downloads')) => ev'.op = "tick" ]_vars

\* A tick's re-install from the URL of the last manual download is awaited and
\* the cache still holds its entry.
C33_Witness ==
    /\ ev.op = "tick"
    /\ scriptUrl = "s2"
    /\ downloads = << [url |-> "s2", kind |-> "tick", task |-> ev.id] >>
    /\ script = "v1"
    /\ cache # EmptyMap

====
